---- MODULE Spec2Model ----
(***************************************************************************)
(* Model of src/src/datagen.py: class Equations.                           *)
(*                                                                         *)
(* Construction (__init__) is a loop over equations and, inside it, over   *)
(* addends; every addend splits the random key once and draws three        *)
(* integer arrays from the subkey.  jax.random.randint is modelled as an   *)
(* unknown but deterministic function of (key, shape, minval, maxval): the *)
(* log `calls` holds every call made so far and a call that repeats the    *)
(* arguments of an earlier one returns the earlier result.                 *)
(*                                                                         *)
(* Strings are sequences of one-character strings, so that formatting and  *)
(* slicing are modelled character by character.  Indices of the program    *)
(* are 0-based; sequences of the model are 1-based, hence the "+ 1".       *)
(***************************************************************************)
EXTENDS Integers, Sequences, FiniteSets, TLC

VARIABLES
    cfg,            \* the arguments of __init__
    pc,             \* "new", "eq", "addend", "done", "raised"
    err,            \* the exception that ended __init__ ("" when none)
    sym_non_lins,   \* self.sym_non_lins
    equations,      \* self.equations
    sym_expr,       \* self.sym_expr
    key,            \* self.key
    n_sum_terms,    \* the array drawn at line 45
    i,              \* loop variable of line 48
    equation,       \* local of the i-th iteration
    sym_eq,         \* local of the i-th iteration
    n_mult_terms,   \* last array drawn at line 57
    non_lins_idxs,  \* last array drawn at line 58
    var_idxs,       \* var_to_be_applied_idxs, last array drawn at line 59
    calls,          \* every random.randint call made, in order
    splits,         \* every random.split call made, in order
    built,          \* per finished iteration: what it built
    last            \* the last __getitem__ / __call__ and what it returned

vars == <<cfg, pc, err, sym_non_lins, equations, sym_expr, key, n_sum_terms, i,
          equation, sym_eq, n_mult_terms, non_lins_idxs, var_idxs, calls,
          splits, built, last>>

\* ---------------------------------------------------------------- bounds
MaxVars == 2
MaxEqs == 2
MaxSum == 2
MaxMult == 2
MaxNonLins == 2
\* construction inputs are enumerated up to MaxDraws index draws in all:
\* n_eqs * max_sum_terms * max_mult_terms <= MaxDraws (a factor below 1 counts 1)
MaxDraws == 4

\* ------------------------------------------------------- character strings
Digits == <<"0", "1", "2", "3", "4", "5", "6", "7", "8", "9">>

\* str(n) of a non-negative integer, as the f-string replacement fields use it
RECURSIVE IntStr(_)
IntStr(n) ==
    IF n < 10 THEN <<Digits[n + 1]>>
    ELSE IntStr(n \div 10) \o <<Digits[(n % 10) + 1]>>

RECURSIVE Flatten(_)
Flatten(ss) == IF ss = <<>> THEN <<>> ELSE Head(ss) \o Flatten(Tail(ss))

\* the unary functions a palette is made of, and their display names
AllFuncs == <<"sin", "cos", "exp">>
FuncName(f) ==
    CASE f = "sin" -> <<"s", "i", "n">>
      [] f = "cos" -> <<"c", "o", "s">>
      [] OTHER     -> <<"e", "x", "p">>

\* func(x) of line 110: the functions are the caller's; they are given a fixed
\* interpretation over the integers, one that tells them apart
Apply(f, x) ==
    CASE f = "sin" -> x + 1
      [] f = "cos" -> (2 * x) + 3
      [] OTHER     -> (x * x) + 2

\* f"\\text{{nl}}_{i+1}" (line 35), i 0-based
DefaultName(idx) ==
    <<"\\", "t", "e", "x", "t", "{", "n", "l", "}", "_">> \o IntStr(idx + 1)

\* lines 32-35
DefaultSymNonLins(non_lins) == [p \in 1..Len(non_lins) |-> DefaultName(p - 1)]

\* f"f_{{{i+1}}} = " (line 51)
EqPrefixNoBraces(idx) == <<"f", "_">> \o IntStr(idx + 1) \o <<" ", "=", " ">>
EqPrefix(idx) == <<"f", "_", "{">> \o IntStr(idx + 1) \o <<"}", " ", "=", " ">>

\* f"(y_{{{j+1}}})" (line 73)
VarArg(j) == <<"(", "y", "_", "{">> \o IntStr(j + 1) \o <<"}", ")">>

\* " + " (line 79)
PlusSep == <<" ", "+", " ">>

\* s[:-3] (line 83): a Python slice never fails, it clips
StripNone(s) == s
StripTail(s) == IF Len(s) <= 3 THEN <<>> ELSE SubSeq(s, 1, Len(s) - 3)

\* ------------------------------------------------------------- randomness
Seed == 42

\* random.key(seed): keys are named by the path of splits that produced them
RandomKey(seed) == <<seed>>

\* random.split(key): two fresh keys
RandomSplit(k) == [newkey |-> Append(k, 0), subkey |-> Append(k, 1)]

\* the values random.randint(key, shape, minval, maxval) can return in one
\* position: minval <= v < maxval, and minval itself when maxval <= minval
RandRange(minval, maxval) ==
    IF maxval <= minval THEN {minval} ELSE minval..(maxval - 1)

Draws(shape, minval, maxval) == [1..shape -> RandRange(minval, maxval)]

RandintCall(k, shape, minval, maxval, res) ==
    [key |-> k, shape |-> shape, minval |-> minval, maxval |-> maxval, res |-> res]

\* randint is a function of its arguments: res may be returned for these
\* arguments only if no earlier call with the same arguments returned otherwise
Deterministic(log, k, shape, minval, maxval, res) ==
    \A c \in 1..Len(log) :
        (/\ log[c].key = k
         /\ log[c].shape = shape
         /\ log[c].minval = minval
         /\ log[c].maxval = maxval) => log[c].res = res

\* maxval of the draw of line 45
NSumMaxvalOff(max_sum_terms) == max_sum_terms + 2
NSumMaxval(max_sum_terms) == max_sum_terms + 1

\* maxval of the draw of line 57
NMultMaxval(max_mult_terms) == max_mult_terms + 1

\* the key each of the three draws of an addend is given (lines 57, 58, 59)
NMultKeyStale(selfkey, subkey) == selfkey
NMultKey(selfkey, subkey) == subkey
NonLinsKey(selfkey, subkey) == subkey
VarKeyFresh(selfkey, subkey) == selfkey
VarKey(selfkey, subkey) == subkey

\* ---------------------------------------------------------------- terms
\* a slot of an addend: the float 1.0 or a list of functions
ONE == [tag |-> "one", fs |-> <<>>]
FuncList(fs) == [tag |-> "list", fs |-> fs]

\* np.ones(n_vars).tolist() (line 64); np.ones fails on a negative size
Ones(n_vars) == [p \in 1..n_vars |-> ONE]

Range(s) == {s[p] : p \in 1..Len(s)}

\* list(set(xs)): the distinct values, in the set's iteration order, which
\* the language leaves open
SetOrders(xs) ==
    {o \in [1..Cardinality(Range(xs)) -> Range(xs)] :
        \A p, q \in 1..Cardinality(Range(xs)) : p # q => o[p] # o[q]}

\* np.where(xs == j)[0] (line 68): the positions of j, ascending (1-based)
RECURSIVE WhereFrom(_, _, _)
WhereFrom(xs, j, p) ==
    IF p > Len(xs) THEN <<>>
    ELSE (IF xs[p] = j THEN <<p>> ELSE <<>>) \o WhereFrom(xs, j, p + 1)
Where(xs, j) == WhereFrom(xs, j, 1)

\* non_lins_idxs[np.where(var_to_be_applied_idxs == j)] (line 68)
IdxsLast(nl, vr, j) == LET w == Where(vr, j) IN <<nl[w[Len(w)]]>>
Idxs(nl, vr, j) == LET w == Where(vr, j) IN [p \in 1..Len(w) |-> nl[w[p]]]

\* lines 69-73 for one j: the list temp and the text added to sym_addend
Temp(non_lins, idxs) == [p \in 1..Len(idxs) |-> non_lins[idxs[p] + 1]]
SymFactors(names, idxs, j) ==
    Flatten([p \in 1..Len(idxs) |-> names[idxs[p] + 1] \o VarArg(j)])

\* lines 67-75: the loop over the distinct variable indices, in the order given
RECURSIVE GroupLoop(_, _, _, _, _, _, _, _)
GroupLoop(order, p, addend, sym_addend, non_lins, names, nl, vr) ==
    IF p > Len(order) THEN [addend |-> addend, sym |-> sym_addend]
    ELSE LET j == order[p]
             idxs == Idxs(nl, vr, j)
         IN GroupLoop(order, p + 1,
                      [addend EXCEPT ![j + 1] = FuncList(Temp(non_lins, idxs))],
                      sym_addend \o SymFactors(names, idxs, j),
                      non_lins, names, nl, vr)

\* an index of lines 72, 73 or 75 is out of range: the loop raises IndexError
GroupRaises(n_vars, non_lins, names, nl, vr) ==
    \/ \E p \in 1..Len(nl) : nl[p] + 1 > Len(non_lins) \/ nl[p] + 1 > Len(names)
    \/ \E p \in 1..Len(vr) : vr[p] + 1 > n_vars

\* lines 81 and 84: the two appends that end an iteration
AppendEquation(eqs, eq) == Append(eqs, eq)
AppendSymFront(exprs, s) == <<s>> \o exprs
AppendSym(exprs, s) == Append(exprs, s)

\* ------------------------------------------------------------- evaluator
\* line 106: the 0-based positions whose element != 1.0, ascending
RECURSIVE FuncIdxsFrom(_, _)
FuncIdxsFrom(term, p) ==
    IF p > Len(term) THEN <<>>
    ELSE (IF term[p] # ONE THEN <<p - 1>> ELSE <<>>) \o FuncIdxsFrom(term, p + 1)
FuncIdxs(term) == FuncIdxsFrom(term, 1)

\* lines 109-110 for one k, starting from the running product acc
RECURSIVE MulFuncs(_, _, _, _)
MulFuncs(fs, p, x, acc) ==
    IF p > Len(fs) THEN acc ELSE MulFuncs(fs, p + 1, x, acc * Apply(fs[p], x))

\* lines 108-110
RECURSIVE MulSlots(_, _, _, _, _)
MulSlots(term, ks, p, y, acc) ==
    IF p > Len(ks) THEN acc
    ELSE MulSlots(term, ks, p + 1, y,
                  MulFuncs(term[ks[p] + 1].fs, 1, y[ks[p] + 1], acc))

\* lines 105-110: the value of one addend
AddendValueFirstOnly(term, y) ==
    MulSlots([p \in 1..Len(term) |->
                 IF term[p] = ONE THEN ONE ELSE FuncList(<<term[p].fs[1]>>)],
             FuncIdxs(term), 1, y, 1)
AddendValue(term, y) == MulSlots(term, FuncIdxs(term), 1, y, 1)

\* lines 100-112: the value of one equation
RECURSIVE SumAddends(_, _, _, _)
SumAddends(eq, p, y, acc) ==
    IF p > Len(eq) THEN acc ELSE SumAddends(eq, p + 1, y, acc + AddendValue(eq[p], y))
EqValue(eq, y) == SumAddends(eq, 1, y, 0)

\* y[k] of line 110 is out of range for some k the loops reach
CallRaises(eqs, y) ==
    \E e \in 1..Len(eqs) : \E a \in 1..Len(eqs[e]) : \E p \in 1..Len(eqs[e][a]) :
        eqs[e][a][p] # ONE /\ p > Len(y)

\* ---------------------------------------------------------------- inputs
Palette(n) == SubSeq(AllFuncs, 1, n)

\* sym_non_lins: None, or the caller's names for the palette
NoSyms == [given |-> FALSE, names |-> <<>>]
GivenSyms(non_lins) ==
    [given |-> TRUE, names |-> [p \in 1..Len(non_lins) |-> FuncName(non_lins[p])]]

AtLeastOne(n) == IF n < 1 THEN 1 ELSE n
DrawBudget(c) ==
    AtLeastOne(c.n_eqs) * AtLeastOne(c.max_sum_terms) * AtLeastOne(c.max_mult_terms)

Configs ==
    {c \in [n_vars : 0..MaxVars, n_eqs : 0..MaxEqs, max_sum_terms : 0..MaxSum,
            max_mult_terms : 0..MaxMult, non_lins : {Palette(n) : n \in 0..MaxNonLins},
            sym : {NoSyms} \cup {GivenSyms(Palette(n)) : n \in 0..MaxNonLins},
            seed : {Seed}] :
        /\ c.sym.given => c.sym = GivenSyms(c.non_lins)
        /\ DrawBudget(c) <= MaxDraws}

\* the arguments __call__ is tried on: t, and y of every length up to n_vars
Times == {0, 1}
YVals == {1, 2}
StateVectors(n_vars) == UNION {[1..n -> YVals] : n \in 0..n_vars}

NoOp == [op |-> "none", idx |-> 0, t |-> 0, y |-> <<>>, status |-> "", eq |-> <<>>,
         sym |-> <<>>, value |-> <<>>]

\* ------------------------------------------------------------------ Init
Init ==
    /\ cfg \in Configs
    /\ pc = "new"
    /\ err = ""
    /\ sym_non_lins = <<>>
    /\ equations = <<>>
    /\ sym_expr = <<>>
    /\ key = <<>>
    /\ n_sum_terms = <<>>
    /\ i = 0
    /\ equation = <<>>
    /\ sym_eq = <<>>
    /\ n_mult_terms = <<>>
    /\ non_lins_idxs = <<>>
    /\ var_idxs = <<>>
    /\ calls = <<>>
    /\ splits = <<>>
    /\ built = <<>>
    /\ last = NoOp

\* --------------------------------------------------------------- __init__
\* lines 23-46: the fields, the default names, the key, the addend counts
Begin ==
    /\ pc = "new"
    /\ sym_non_lins' = IF cfg.sym.given THEN cfg.sym.names
                       ELSE DefaultSymNonLins(cfg.non_lins)
    /\ equations' = <<>>
    /\ sym_expr' = <<>>
    /\ key' = RandomKey(cfg.seed)
    /\ \E res \in Draws(cfg.n_eqs, 1, NSumMaxval(cfg.max_sum_terms)) :
          /\ Deterministic(calls, key', cfg.n_eqs, 1, NSumMaxval(cfg.max_sum_terms), res)
          /\ n_sum_terms' = res
          /\ calls' = Append(calls, RandintCall(key', cfg.n_eqs, 1,
                                                NSumMaxval(cfg.max_sum_terms), res))
    /\ i' = 0
    /\ pc' = "eq"
    /\ UNCHANGED <<cfg, err, equation, sym_eq, n_mult_terms, non_lins_idxs, var_idxs,
                   splits, built, last>>

\* lines 48-51: the next iteration of the loop over equations starts
NextEquation ==
    /\ pc = "eq"
    /\ i < cfg.n_eqs
    /\ equation' = <<>>
    /\ sym_eq' = EqPrefix(i)
    /\ pc' = "addend"
    /\ UNCHANGED <<cfg, err, sym_non_lins, equations, sym_expr, key, n_sum_terms, i,
                   n_mult_terms, non_lins_idxs, var_idxs, calls, splits, built, last>>

\* lines 54-79: one addend: a split, three draws from the subkey, the grouping
Addend ==
    /\ pc = "addend"
    /\ Len(equation) < n_sum_terms[i + 1]
    /\ LET sp == RandomSplit(key)
           kM == NMultKey(sp.newkey, sp.subkey)
           kN == NonLinsKey(sp.newkey, sp.subkey)
           kV == VarKey(sp.newkey, sp.subkey)
           hiM == NMultMaxval(cfg.max_mult_terms)
           hiN == Len(cfg.non_lins)
           hiV == cfg.n_vars
       IN
       /\ key' = sp.newkey
       /\ splits' = Append(splits, [of |-> key, newkey |-> sp.newkey, subkey |-> sp.subkey])
       /\ \E nm \in Draws(1, 1, hiM) :
          /\ Deterministic(calls, kM, 1, 1, hiM, nm)
          /\ LET m == nm[1]
                 log1 == Append(calls, RandintCall(kM, 1, 1, hiM, nm))
             IN \E nl \in Draws(m, 0, hiN) :
                /\ Deterministic(log1, kN, m, 0, hiN, nl)
                /\ LET log2 == Append(log1, RandintCall(kN, m, 0, hiN, nl))
                   IN \E vr \in Draws(m, 0, hiV) :
                      /\ Deterministic(log2, kV, m, 0, hiV, vr)
                      /\ n_mult_terms' = nm
                      /\ non_lins_idxs' = nl
                      /\ var_idxs' = vr
                      /\ calls' = Append(log2, RandintCall(kV, m, 0, hiV, vr))
                      /\ IF GroupRaises(cfg.n_vars, cfg.non_lins, sym_non_lins, nl, vr)
                         THEN /\ pc' = "raised"
                              /\ err' = "IndexError"
                              /\ UNCHANGED <<equation, sym_eq>>
                         ELSE \E order \in SetOrders(vr) :
                              LET g == GroupLoop(order, 1, Ones(cfg.n_vars), <<>>,
                                                 cfg.non_lins, sym_non_lins, nl, vr)
                              IN /\ equation' = Append(equation, g.addend)
                                 /\ sym_eq' = sym_eq \o g.sym \o PlusSep
                                 /\ UNCHANGED <<pc, err>>
    /\ UNCHANGED <<cfg, sym_non_lins, equations, sym_expr, n_sum_terms, i, built, last>>

\* lines 81-84: the iteration ends: both lists grow by one
EndEquation ==
    /\ pc = "addend"
    /\ Len(equation) = n_sum_terms[i + 1]
    /\ equations' = AppendEquation(equations, equation)
    /\ sym_eq' = StripTail(sym_eq)
    /\ sym_expr' = AppendSym(sym_expr, sym_eq')
    /\ built' = Append(built, [iter |-> i, equation |-> equation, sym_eq |-> sym_eq'])
    /\ i' = i + 1
    /\ pc' = "eq"
    /\ UNCHANGED <<cfg, err, sym_non_lins, key, n_sum_terms, equation, n_mult_terms,
                   non_lins_idxs, var_idxs, calls, splits, last>>

\* line 48, range exhausted: __init__ returns
Constructed ==
    /\ pc = "eq"
    /\ i = cfg.n_eqs
    /\ pc' = "done"
    /\ UNCHANGED <<cfg, err, sym_non_lins, equations, sym_expr, key, n_sum_terms, i,
                   equation, sym_eq, n_mult_terms, non_lins_idxs, var_idxs, calls,
                   splits, built, last>>

\* ------------------------------------------------------------ __getitem__
\* lines 87-88
GetItem ==
    /\ pc = "done"
    /\ \E idx \in 0..cfg.n_eqs :
          last' = IF idx + 1 > Len(equations) \/ idx + 1 > Len(sym_expr)
                  THEN [NoOp EXCEPT !.op = "getitem", !.idx = idx, !.status = "IndexError"]
                  ELSE [NoOp EXCEPT !.op = "getitem", !.idx = idx, !.status = "ok",
                                    !.eq = equations[idx + 1], !.sym = sym_expr[idx + 1]]
    /\ UNCHANGED <<cfg, pc, err, sym_non_lins, equations, sym_expr, key, n_sum_terms, i,
                   equation, sym_eq, n_mult_terms, non_lins_idxs, var_idxs, calls,
                   splits, built>>

\* --------------------------------------------------------------- __call__
\* lines 93-116
CallEval ==
    /\ pc = "done"
    /\ \E t \in Times : \E y \in StateVectors(cfg.n_vars) :
          last' = IF CallRaises(equations, y)
                  THEN [NoOp EXCEPT !.op = "call", !.t = t, !.y = y,
                                    !.status = "IndexError"]
                  ELSE [NoOp EXCEPT !.op = "call", !.t = t, !.y = y, !.status = "ok",
                                    !.value = [e \in 1..cfg.n_eqs |->
                                                  EqValue(equations[e], y)]]
    /\ UNCHANGED <<cfg, pc, err, sym_non_lins, equations, sym_expr, key, n_sum_terms, i,
                   equation, sym_eq, n_mult_terms, non_lins_idxs, var_idxs, calls,
                   splits, built>>

Next ==
    \/ Begin
    \/ NextEquation
    \/ Addend
    \/ EndEquation
    \/ Constructed
    \/ GetItem
    \/ CallEval

Spec == Init /\ [][Next]_vars

\* ================================================================ claims
ValidConfig ==
    /\ cfg.n_vars >= 1
    /\ cfg.n_eqs >= 1
    /\ cfg.max_sum_terms >= 1
    /\ cfg.max_mult_terms >= 1
    /\ Len(cfg.non_lins) >= 1

NonIdentity(term) == {p \in 1..Len(term) : term[p] # ONE}

\* ------------------------------------------------------------------- C1
\* the sum-of-products value of an equation, written from its definition
RECURSIVE ProductOf(_, _)
ProductOf(fs, x) == IF fs = <<>> THEN 1 ELSE Apply(Head(fs), x) * ProductOf(Tail(fs), x)

RECURSIVE TermProduct(_, _, _)
TermProduct(term, y, p) ==
    IF p = 0 THEN 1
    ELSE (IF term[p].tag = "one" THEN 1 ELSE ProductOf(term[p].fs, y[p]))
         * TermProduct(term, y, p - 1)

RECURSIVE SumOfProducts(_, _)
SumOfProducts(eq, y) ==
    IF eq = <<>> THEN 0
    ELSE TermProduct(Head(eq), y, Len(Head(eq))) + SumOfProducts(Tail(eq), y)

\* C1: on a constructed equation set, __call__(t, y) with len(y) = n_vars returns
\* n_eqs values, the i-th being the sum over the Terms of equation i of the product
\* over the non-identity slots k and the functions f of slot k of f(y[k]) (an
\* all-identity Term counting 1), whatever t is and whatever was called before.
C1_Evaluator ==
    (pc = "done" /\ last.op = "call" /\ Len(last.y) = cfg.n_vars) =>
        /\ last.status = "ok"
        /\ Len(last.value) = cfg.n_eqs
        /\ \A e \in 1..cfg.n_eqs : last.value[e] = SumOfProducts(equations[e], last.y)

C1_Witness ==
    /\ pc = "done"
    /\ last.op = "call"
    /\ last.status = "ok"
    /\ last.t = 1
    /\ cfg.n_vars = 2
    /\ Len(last.y) = 2
    /\ last.y[1] # last.y[2]
    /\ Len(equations) = 1
    /\ Len(equations[1]) = 2
    /\ equations[1][1][1] = ONE
    /\ Len(equations[1][1][2].fs) = 2
    /\ equations[1][2][1] # ONE
    /\ last.value = <<SumOfProducts(equations[1], last.y)>>

\* ------------------------------------------------------------------- C2
\* C2: under a valid configuration every generated equation has between 1 and
\* max_sum_terms addends and every addend has at most max_mult_terms
\* non-identity slots.
C2_Bounds ==
    ValidConfig =>
        /\ \A e \in 1..Len(equations) :
              /\ 1 <= Len(equations[e])
              /\ Len(equations[e]) <= cfg.max_sum_terms
              /\ \A a \in 1..Len(equations[e]) :
                    Cardinality(NonIdentity(equations[e][a])) <= cfg.max_mult_terms
        /\ Len(equation) <= cfg.max_sum_terms
        /\ \A a \in 1..Len(equation) :
              Cardinality(NonIdentity(equation[a])) <= cfg.max_mult_terms

C2_Witness ==
    /\ ValidConfig
    /\ pc = "done"
    /\ cfg.max_sum_terms = 2
    /\ cfg.max_mult_terms = 2
    /\ \E e \in 1..Len(equations) :
          /\ Len(equations[e]) = 2
          /\ \E a \in 1..2 : Cardinality(NonIdentity(equations[e][a])) = 2

\* ------------------------------------------------------------------- C3
\* C3: the two lists stay parallel: after every completed iteration both have the
\* length of the number of iterations completed, after construction n_eqs; every
\* Term has n_vars slots; equations[idx] returns the Term sequence and the string
\* that iteration idx built.
C3_Parallel ==
    /\ Len(equations) = i
    /\ Len(sym_expr) = i
    /\ pc = "done" => Len(equations) = cfg.n_eqs /\ Len(sym_expr) = cfg.n_eqs
    /\ \A e \in 1..Len(equations) : \A a \in 1..Len(equations[e]) :
          Len(equations[e][a]) = cfg.n_vars
    /\ (pc = "done" /\ last.op = "getitem" /\ last.idx < cfg.n_eqs) =>
          /\ last.status = "ok"
          /\ built[last.idx + 1].iter = last.idx
          /\ last.eq = built[last.idx + 1].equation
          /\ last.sym = built[last.idx + 1].sym_eq

C3_Witness ==
    /\ pc = "done"
    /\ cfg.n_eqs = 2
    /\ last.op = "getitem"
    /\ last.idx = 1
    /\ last.status = "ok"
    /\ last.eq = built[2].equation
    /\ last.sym = built[2].sym_eq
    /\ built[1].sym_eq # built[2].sym_eq

\* ------------------------------------------------------------------- C4
\* C4: constructing with an invalid configuration fails with a
\* ConfigurationError before any random draw, and nothing of an equation set is
\* built.
C4_FailFast ==
    ~ValidConfig =>
        /\ pc \in {"new", "raised"}
        /\ pc = "raised" => err = "ConfigurationError"
        /\ calls = <<>>
        /\ splits = <<>>
        /\ equations = <<>>
        /\ sym_expr = <<>>

\* ------------------------------------------------------------------- C5
\* C5: on a constructed equation set, __call__(t, y) with len(y) < n_vars fails
\* with a DomainError and returns no value, whatever slots the Terms reference.
C5_ShortVector ==
    (ValidConfig /\ pc = "done" /\ last.op = "call" /\ Len(last.y) < cfg.n_vars) =>
        /\ last.status = "DomainError"
        /\ last.value = <<>>

\* ------------------------------------------------------------------- C6
Scenario ==
    /\ cfg.n_vars = 2
    /\ cfg.n_eqs = 1
    /\ cfg.max_sum_terms = 1
    /\ cfg.max_mult_terms = 1
    /\ cfg.non_lins = <<"sin">>
    /\ pc = "done"
    /\ n_sum_terms = <<1>>
    /\ n_mult_terms = <<1>>
    /\ non_lins_idxs = <<0>>
    /\ var_idxs = <<0>>

ScenarioValue ==
    (last.op = "call" /\ Len(last.y) = 2) =>
        last.status = "ok" /\ last.value = <<Apply("sin", last.y[1])>>

\* "f_1 = \text{nl}_1(y_1)" and "f_1 = sin(y_1)"
PlainDefault ==
    <<"f", "_", "1", " ", "=", " ", "\\", "t", "e", "x", "t", "{", "n", "l", "}",
      "_", "1", "(", "y", "_", "1", ")">>
PlainSin == <<"f", "_", "1", " ", "=", " ", "s", "i", "n", "(", "y", "_", "1", ")">>

\* "f_{1} = \text{nl}_1(y_{1})" and "f_{1} = sin(y_{1})"
BracedDefault ==
    <<"f", "_", "{", "1", "}", " ", "=", " ", "\\", "t", "e", "x", "t", "{", "n", "l",
      "}", "_", "1", "(", "y", "_", "{", "1", "}", ")">>
BracedSin ==
    <<"f", "_", "{", "1", "}", " ", "=", " ", "s", "i", "n", "(", "y", "_", "{", "1",
      "}", ")">>

\* C6 as stated: in the scenario the evaluator returns [sin(y0)] and the stored
\* string is exactly f_1 = \text{nl}_1(y_1), or f_1 = sin(y_1) with the name given.
C6_AsStated ==
    Scenario =>
        /\ ScenarioValue
        /\ sym_expr = <<IF cfg.sym.given THEN PlainSin ELSE PlainDefault>>

\* C6 amended: in the scenario the evaluator returns [sin(y0)] and the stored
\* string is exactly f_{1} = \text{nl}_1(y_{1}), or f_{1} = sin(y_{1}) with the
\* name given: the indices of f and y are written in braces.
C6_Braced ==
    Scenario =>
        /\ ScenarioValue
        /\ sym_expr = <<IF cfg.sym.given THEN BracedSin ELSE BracedDefault>>

C6_Witness ==
    /\ Scenario
    /\ ~cfg.sym.given
    /\ sym_expr = <<BracedDefault>>
    /\ last.op = "call"
    /\ last.y = <<2, 1>>
    /\ last.value = <<Apply("sin", 2)>>

\* ------------------------------------------------------------------- C7
\* the positions of the pairs drawn for variable j (0-based j, 1-based positions)
PairsOf(j) == {k \in 1..Len(var_idxs) : var_idxs[k] = j}

\* the addend the last draws were grouped into
LastAddend == equation[Len(equation)]

Grouped == pc \in {"addend", "eq", "done"} /\ equation # <<>>

RECURSIVE SumLens(_, _)
SumLens(term, p) ==
    IF p = 0 THEN 0 ELSE Len(term[p].fs) + SumLens(term, p - 1)

\* C7: for the m pairs (nl[k], var[k]) of an addend and every variable j, slot j is
\* the identity marker iff no pair has var[k] = j; otherwise it is the sequence of
\* the nonlinearities nl[k] of the pairs with var[k] = j, in increasing k; the slot
\* lengths sum to m.
C7_Grouping ==
    Grouped =>
        /\ \A j \in 0..(cfg.n_vars - 1) :
              LET slot == LastAddend[j + 1]
                  ks == PairsOf(j)
              IN /\ slot = ONE <=> ks = {}
                 /\ ks # {} =>
                       /\ slot.tag = "list"
                       /\ Len(slot.fs) = Cardinality(ks)
                       /\ \A k \in ks :
                             slot.fs[Cardinality({k2 \in ks : k2 <= k})]
                                 = cfg.non_lins[non_lins_idxs[k] + 1]
        /\ Len(var_idxs) = n_mult_terms[1]
        /\ Len(non_lins_idxs) = n_mult_terms[1]
        /\ SumLens(LastAddend, Len(LastAddend)) = n_mult_terms[1]

C7_Witness ==
    /\ Grouped
    /\ pc = "addend"
    /\ cfg.n_vars = 1
    /\ var_idxs = <<0, 0>>
    /\ non_lins_idxs = <<1, 0>>
    /\ LastAddend = <<FuncList(<<"cos", "sin">>)>>

\* ------------------------------------------------------------------- C8
\* the display name of a function of the palette
NameOf(f) ==
    sym_non_lins[CHOOSE p \in 1..Len(cfg.non_lins) : cfg.non_lins[p] = f]

\* a Term rendered slot by slot, the non-identity slots taken in the order given:
\* per slot j, name(y_{j+1}) for each function of the slot, in slot order
RenderTerm(term, order) ==
    Flatten([q \in 1..Len(order) |->
        Flatten([p \in 1..Len(term[order[q]].fs) |->
            NameOf(term[order[q]].fs[p]) \o VarArg(order[q] - 1)])])

Orderings(S) ==
    {o \in [1..Cardinality(S) -> S] : \A p, q \in 1..Cardinality(S) : p # q => o[p] # o[q]}

Renderings(term) == {RenderTerm(term, o) : o \in Orderings(NonIdentity(term))}

\* rs[1] + rs[2] + ... : the separator between renderings only
RECURSIVE Joined(_)
Joined(rs) ==
    IF Len(rs) = 0 THEN <<>>
    ELSE IF Len(rs) = 1 THEN rs[1]
    ELSE rs[1] \o PlusSep \o Joined(Tail(rs))

\* C8: the string of equation e is the prefix of f with display index e followed by
\* one rendering per Term, " + " between them and none leading or trailing; a
\* rendering lists, for every variable j, the functions of slot j in slot order as
\* factors of y with display index j+1, and mentions no variable of an identity slot.
C8_StringMirrors ==
    \A e \in 1..Len(equations) :
        \E rs \in [1..Len(equations[e]) ->
                      UNION {Renderings(equations[e][a]) : a \in 1..Len(equations[e])}] :
            /\ \A a \in 1..Len(equations[e]) : rs[a] \in Renderings(equations[e][a])
            /\ sym_expr[e] = EqPrefix(e - 1) \o Joined(rs)

C8_Witness ==
    /\ pc = "done"
    /\ cfg.n_vars = 2
    /\ Len(equations) = 1
    /\ equations[1] = <<<<FuncList(<<"sin">>), FuncList(<<"cos">>)>>,
                        <<ONE, FuncList(<<"cos", "cos">>)>>>>
    /\ cfg.sym.given
    /\ sym_expr[1] = EqPrefix(0)
                        \o FuncName("cos") \o VarArg(1) \o FuncName("sin") \o VarArg(0)
                        \o PlusSep
                        \o FuncName("cos") \o VarArg(1) \o FuncName("cos") \o VarArg(1)

\* ------------------------------------------------------------------- C9
RECURSIVE AddendCount(_)
AddendCount(eqs) == IF eqs = <<>> THEN 0 ELSE Len(Head(eqs)) + AddendCount(Tail(eqs))

\* the addends begun so far: those of the finished equations, those of the
\* equation under construction, and the one whose grouping raised
AddendsBegun ==
    AddendCount(equations)
        + (IF pc \in {"addend", "raised"} THEN Len(equation) ELSE 0)
        + (IF pc = "raised" THEN 1 ELSE 0)

\* C9: the key is split exactly once per addend and nowhere else, each split
\* consuming the current key; the three draws of an addend all use the subkey of
\* that addend's split and no other key.
C9_OneSplitPerAddend ==
    /\ Len(splits) = AddendsBegun
    /\ pc = "done" => Len(splits) = AddendCount(equations)
    /\ pc # "new" => Len(calls) = 1 + (3 * Len(splits)) /\ calls[1].key = RandomKey(cfg.seed)
    /\ \A a \in 1..Len(splits) :
          /\ splits[a].of = (IF a = 1 THEN RandomKey(cfg.seed) ELSE splits[a - 1].newkey)
          /\ splits[a].subkey # splits[a].newkey
          /\ \A b \in 1..Len(splits) : b # a => splits[b].subkey # splits[a].subkey
          /\ \A d \in 0..2 : calls[(3 * a) - 1 + d].key = splits[a].subkey
    /\ pc # "new" => key = (IF splits = <<>> THEN RandomKey(cfg.seed)
                            ELSE splits[Len(splits)].newkey)

C9_Witness ==
    /\ pc = "done"
    /\ Len(equations) = 2
    /\ Len(equations[1]) = 2
    /\ Len(equations[2]) = 1
    /\ Len(splits) = 3
    /\ Len(calls) = 10
    /\ calls[8].key = splits[3].subkey

\* ------------------------------------------------------------------ C10
OnlyOwnFunction(term) ==
    \A p \in NonIdentity(term) : \A q \in 1..Len(term[p].fs) :
        term[p].fs[q] = cfg.non_lins[p]

\* C10: when len(non_lins) = n_vars the nonlinearity-index draw and the
\* variable-index draw of an addend are one and the same call, so they return the
\* same sequence and every non-identity slot j holds only copies of non_lins[j].
C10_SameDraw ==
    Len(cfg.non_lins) = cfg.n_vars =>
        /\ non_lins_idxs = var_idxs
        /\ \A e \in 1..Len(equations) : \A a \in 1..Len(equations[e]) :
              OnlyOwnFunction(equations[e][a])
        /\ \A a \in 1..Len(equation) : OnlyOwnFunction(equation[a])

C10_Witness ==
    /\ pc = "done"
    /\ Len(cfg.non_lins) = 2
    /\ cfg.n_vars = 2
    /\ non_lins_idxs = <<1, 0>>
    /\ var_idxs = <<1, 0>>
    /\ equations[1][1] = <<FuncList(<<"sin">>), FuncList(<<"cos">>)>>

====
